---- MODULE Spec2Model ----
(***************************************************************************)
(* Model of the EKALAVYA backend (src/index.js): an Express service that   *)
(* keeps one row per user in the "users" table and drives registration,    *)
(* e-mail OTP verification, login OTPs, session tokens and logout.         *)
(*                                                                         *)
(* Every request is a task that runs from one await to the next; the       *)
(* users table, the mail transporter and the request tasks are the state.  *)
(* One action is one segment of a handler between two awaits: the effect   *)
(* of the awaited call together with the synchronous code that follows it. *)
(***************************************************************************)
EXTENDS Integers, Sequences, FiniteSets

(* ---------------------------- bounds ----------------------------------- *)
NumProcs == 2           \* requests that can be in flight at the same time
MaxRequests == 2        \* requests accepted in one behaviour
NumSamples == 2         \* values of Math.random() explored
RandDen == 1000         \* Math.random() is modelled as k / RandDen

(* ------------------------ program constants ---------------------------- *)
OtpMin == 100000        \* Math.floor(100000 + Math.random() * 900000)
OtpSpan == 900000
NullTime == 0           \* last_login_at TIMESTAMP with no default: NULL

\* the addresses clients use (every query is .eq("email", email): rows of
\* different addresses never meet), and the undefined req.body.email
Emails == {"a@x.com"}
NoEmail == ""

Procs == 1..NumProcs

\* Math.random() returns k / RandDen for k in Samples (0 <= k < RandDen)
Samples == {(i * (RandDen - 1)) \div (NumSamples - 1) : i \in 0..(NumSamples - 1)}

\* Number.prototype.toString: the decimal digits of n, most significant first
RECURSIVE ToString(_)
ToString(n) == IF n < 10 THEN <<n>> ELSE Append(ToString(n \div 10), n % 10)

\* the generator without its 100000 offset
GenerateOtpNoOffset(k) == ToString((k * OtpSpan) \div RandDen)

\* Math.floor(100000 + Math.random() * 900000).toString()
GenerateOtp(k) == ToString((OtpMin * RandDen + k * OtpSpan) \div RandDen)

\* a code the generator never produces, and the absent code
WrongOtp == <<0, 0, 0, 0, 0, 0>>
NoOtp == <<>>
OtpCandidates == {GenerateOtp(k) : k \in Samples} \cup {WrongOtp}

(* --------------------------- users table ------------------------------- *)
NoRow == [absent |-> TRUE]

\* column defaults of CREATE TABLE users
SchemaDefaults ==
  [otp |-> NoOtp, otp_verified |-> FALSE, email_verified |-> FALSE,
   approved_by_admin |-> FALSE, last_login_at |-> NullTime, login_records |-> <<>>]

\* an insert that passes every column the body carries
InsertColumnsFromBody(body, otp) ==
  [c \in (DOMAIN body \cap DOMAIN SchemaDefaults) \cup {"otp"} |->
     IF c = "otp" THEN otp ELSE body[c]]

\* the columns the register handler passes to insert (of those modelled)
InsertColumns(body, otp) == [otp |-> otp]

\* the row an insert creates: given columns, defaults for the rest
RegisterRow(body, otp) ==
  [c \in DOMAIN SchemaDefaults |->
     IF c \in DOMAIN InsertColumns(body, otp)
       THEN InsertColumns(body, otp)[c] ELSE SchemaDefaults[c]]

\* request bodies of POST /register: with an e-mail, without one, and one
\* that also carries the columns a client must not control
PlainBody(e) == [email |-> e]
ForgedBody(e) ==
  [email |-> e, otp |-> WrongOtp, otp_verified |-> TRUE, email_verified |-> TRUE,
   approved_by_admin |-> TRUE, last_login_at |-> 1,
   login_records |-> <<[action |-> "login", time |-> 1]>>]
RegisterBodies ==
  {PlainBody(e) : e \in Emails} \cup {ForgedBody(e) : e \in Emails}
    \cup {[phone |-> 1]}

BodyEmail(body) == IF "email" \in DOMAIN body THEN body.email ELSE NoEmail
BodyApproved(body) == "approved_by_admin" \in DOMAIN body /\ body.approved_by_admin

\* an insert that does not enforce UNIQUE on email
InsertErrorNoUnique(tbl, e, ok) ==
  IF ~ok THEN "RepositoryFailure"
  ELSE IF e = NoEmail THEN "NotNullViolation"
  ELSE "none"

\* insert: email TEXT UNIQUE NOT NULL
InsertError(tbl, e, ok) ==
  IF ~ok THEN "RepositoryFailure"
  ELSE IF e = NoEmail THEN "NotNullViolation"
  ELSE IF tbl[e] # NoRow THEN "DuplicateEmail"
  ELSE "none"

\* a read whose failure is not seen: the row is returned all the same
SelectByEmailUnchecked(tbl, e, ok) ==
  IF e \in Emails THEN tbl[e] ELSE NoRow

\* select("*").eq("email", email).single()
SelectByEmail(tbl, e, ok) ==
  IF ok /\ e \in Emails THEN tbl[e] ELSE NoRow

\* the select without its .eq("otp", otp) filter
SelectIgnoringOtp(tbl, e, code, ok) ==
  IF ok /\ e \in Emails THEN tbl[e] ELSE NoRow

\* select("*").eq("email", email).eq("otp", otp).single()
SelectByEmailOtp(tbl, e, code, ok) ==
  IF ok /\ e \in Emails /\ tbl[e] # NoRow /\ tbl[e].otp = code THEN tbl[e] ELSE NoRow

\* an update that also clears the code it has checked
VerifyOtpUpdateClearsOtp(row) ==
  [row EXCEPT !.otp_verified = TRUE, !.email_verified = TRUE, !.otp = NoOtp]

\* an update that sets only one of the two flags
VerifyOtpUpdateOneFlag(row) == [row EXCEPT !.otp_verified = TRUE]

\* update({ otp_verified: true, email_verified: true })
VerifyOtpUpdate(row) == [row EXCEPT !.otp_verified = TRUE, !.email_verified = TRUE]

(* ------------------------------ state ---------------------------------- *)
VARIABLES
  users,      \* the users table: e-mail -> row, or NoRow
  procs,      \* the request tasks in flight: position and locals of each
  resp,       \* the response the last step wrote, and the request it answers
  sent,       \* the mail the last step handed to transporter.sendMail, if any
  clock,      \* requests accepted so far; also the reading of new Date()
  otpUses,    \* per e-mail: verify-login acceptances since the OTP was stored
  prevOtp     \* per e-mail: the code the latest OTP store replaced

vars == <<users, procs, resp, sent, clock, otpUses, prevOtp>>

\* bodyApproved: req.body.approved_by_admin of a register request;
\* written: the update or insert the handler awaited was applied (the
\* { error } of its result is empty), whether or not the handler looks at it
Idle ==
  [pc |-> "idle", op |-> "none", email |-> NoEmail, code |-> NoOtp, otp |-> NoOtp,
   user |-> NoRow, time |-> NullTime, bodyApproved |-> FALSE, written |-> FALSE]

\* op "none": the step wrote no response; status 0: the handler's promise
\* was rejected and its request is left without a response
NoResp ==
  [op |-> "none", email |-> NoEmail, code |-> NoOtp, status |-> 0, error |-> "none",
   token |-> FALSE, stale |-> FALSE]

\* a request is accepted into the lowest free slot
Free(p) ==
  /\ procs[p].pc = "idle"
  /\ \A q \in Procs : q < p => procs[q].pc # "idle"
  /\ clock < MaxRequests

\* res.status(status).json({ error }) or res.json(...) for request st
Response(st, status, error) ==
  [NoResp EXCEPT !.op = st.op, !.email = st.email, !.code = st.code,
                 !.status = status, !.error = error]

\* the supplied code is one a later store has replaced
Stale(e, code, ok) ==
  ok /\ e \in Emails /\ users[e] # NoRow /\ code # NoOtp
     /\ code = prevOtp[e] /\ code # users[e].otp

Mail(to, subject, otp) == [to |-> to, subject |-> subject, otp |-> otp]
NoMail == Mail(NoEmail, "none", NoOtp)

\* what a promise rejected by an async handler without try/catch leads to,
\* by the Express and Node versions installed: the request is left without
\* a response, the process exits on the unhandled rejection (every request
\* in flight is lost), or the default error handler answers 500
RejectionOutcomes == {"hang", "exit", "500"}

\* sendEmail followed by the success response; a rejected sendMail is thrown
\* out of the handler
SendThenRespond(p, subject, otp, token, mailOk) ==
  IF mailOk
    THEN /\ procs' = [procs EXCEPT ![p] = Idle]
         /\ sent' = Mail(procs[p].email, subject, otp)
         /\ resp' = [Response(procs[p], 200, "none") EXCEPT !.token = token]
    ELSE /\ sent' = NoMail
         /\ \E out \in RejectionOutcomes :
              /\ procs' = IF out = "exit" THEN [q \in Procs |-> Idle]
                                          ELSE [procs EXCEPT ![p] = Idle]
              /\ resp' = IF out = "500"
                           THEN Response(procs[p], 500, "Internal Server Error")
                           ELSE Response(procs[p], 0, "unhandled rejection")

\* an issuance that keeps the code already stored
StoreOtpKeepsOld(e, otp) ==
  /\ users' = users
  /\ prevOtp' = [prevOtp EXCEPT ![e] = users[e].otp]
  /\ otpUses' = [otpUses EXCEPT ![e] = 0]

\* a new code is stored for e
StoreOtp(e, otp) ==
  /\ users' = [users EXCEPT ![e].otp = otp]
  /\ prevOtp' = [prevOtp EXCEPT ![e] = users[e].otp]
  /\ otpUses' = [otpUses EXCEPT ![e] = 0]

\* rows a table kept from earlier runs of the service can hold
InitRows ==
  {NoRow} \cup
  {[SchemaDefaults EXCEPT !.otp = GenerateOtp(0), !.otp_verified = v,
                          !.email_verified = v, !.approved_by_admin = a] :
     v \in BOOLEAN, a \in BOOLEAN}

Init ==
  /\ users \in [Emails -> InitRows]
  /\ procs = [p \in Procs |-> Idle]
  /\ resp = NoResp
  /\ sent = NoMail
  /\ clock = 0
  /\ otpUses = [e \in Emails |-> 0]
  /\ prevOtp = [e \in Emails |-> NoOtp]

\* the handler of p returns after writing response r
Reply(p, r) ==
  /\ procs' = [procs EXCEPT ![p] = Idle]
  /\ resp' = r

\* the handler of p goes on to its next await with locals st
Continue(p, st) ==
  /\ procs' = [procs EXCEPT ![p] = st]
  /\ resp' = NoResp

(* --------------------------- POST /register ---------------------------- *)
Register(p, body, k, dbOk) ==
  /\ Free(p)
  /\ clock' = clock + 1
  /\ LET e == BodyEmail(body)
         otp == GenerateOtp(k)
         err == InsertError(users, e, dbOk)
         st == [Idle EXCEPT !.op = "register", !.email = e, !.otp = otp,
                            !.bodyApproved = BodyApproved(body)]
     IN IF err # "none"
          THEN /\ Reply(p, Response(st, 400, err))
               /\ sent' = NoMail
               /\ UNCHANGED <<users, otpUses, prevOtp>>
          ELSE /\ users' = [users EXCEPT ![e] = RegisterRow(body, otp)]
               /\ prevOtp' = [prevOtp EXCEPT ![e] = NoOtp]
               /\ otpUses' = [otpUses EXCEPT ![e] = 0]
               /\ Continue(p, [st EXCEPT !.pc = "reg_send", !.written = TRUE])
               /\ sent' = NoMail

RegisterSend(p, mailOk) ==
  /\ procs[p].pc = "reg_send"
  /\ SendThenRespond(p, "Verify Your Registration", procs[p].otp, FALSE, mailOk)
  /\ UNCHANGED <<users, clock, otpUses, prevOtp>>

(* -------------------------- POST /verify-otp --------------------------- *)
VerifyOtp(p, e, code, dbOk) ==
  /\ Free(p)
  /\ clock' = clock + 1
  /\ LET row == SelectByEmailOtp(users, e, code, dbOk)
         st == [Idle EXCEPT !.op = "verify-otp", !.email = e, !.code = code]
     IN IF row = NoRow
          THEN Reply(p, [Response(st, 400, "Invalid OTP") EXCEPT !.stale = Stale(e, code, dbOk)])
          ELSE Continue(p, [st EXCEPT !.pc = "vo_update", !.user = row])
  /\ sent' = NoMail
  /\ UNCHANGED <<users, otpUses, prevOtp>>

\* update(...).eq("email", email): the error of the update is not looked at
VerifyOtpWrite(p, dbOk) ==
  /\ procs[p].pc = "vo_update"
  /\ LET e == procs[p].email
     IN users' = IF dbOk /\ users[e] # NoRow
                   THEN [users EXCEPT ![e] = VerifyOtpUpdate(@)] ELSE users
  /\ Reply(p, Response(procs[p], 200, "none"))
  /\ sent' = NoMail
  /\ UNCHANGED <<clock, otpUses, prevOtp>>

(* ----------------------------- POST /login ----------------------------- *)
\* the login handler without its approved_by_admin check
LoginGateNoApproval(user) ==
  IF user = NoRow THEN [status |-> 400, error |-> "User not found"]
  ELSE IF ~user.email_verified THEN [status |-> 403, error |-> "Email not verified"]
  ELSE [status |-> 200, error |-> "none"]

\* the login handler with its two 403 checks in the other order
LoginGateApprovalFirst(user) ==
  IF user = NoRow THEN [status |-> 400, error |-> "User not found"]
  ELSE IF ~user.approved_by_admin THEN [status |-> 403, error |-> "Not approved by admin"]
  ELSE IF ~user.email_verified THEN [status |-> 403, error |-> "Email not verified"]
  ELSE [status |-> 200, error |-> "none"]

\* the three early returns of the login handler, in their order
LoginGate(user) ==
  IF user = NoRow THEN [status |-> 400, error |-> "User not found"]
  ELSE IF ~user.email_verified THEN [status |-> 403, error |-> "Email not verified"]
  ELSE IF ~user.approved_by_admin THEN [status |-> 403, error |-> "Not approved by admin"]
  ELSE [status |-> 200, error |-> "none"]

Login(p, e, k, dbOk) ==
  /\ Free(p)
  /\ clock' = clock + 1
  /\ LET user == SelectByEmail(users, e, dbOk)
         gate == LoginGate(user)
         st == [Idle EXCEPT !.op = "login", !.email = e, !.user = user]
     IN IF gate.status # 200
          THEN Reply(p, Response(st, gate.status, gate.error))
          ELSE Continue(p, [st EXCEPT !.pc = "login_update", !.otp = GenerateOtp(k)])
  /\ sent' = NoMail
  /\ UNCHANGED <<users, otpUses, prevOtp>>

\* update({ otp }): the error of the update is not looked at
LoginWrite(p, dbOk) ==
  /\ procs[p].pc = "login_update"
  /\ IF dbOk /\ users[procs[p].email] # NoRow
       THEN StoreOtp(procs[p].email, procs[p].otp)
       ELSE UNCHANGED <<users, otpUses, prevOtp>>
  /\ Continue(p, [procs[p] EXCEPT !.pc = "login_send", !.written = dbOk])
  /\ sent' = NoMail
  /\ UNCHANGED clock

LoginSend(p, mailOk) ==
  /\ procs[p].pc = "login_send"
  /\ SendThenRespond(p, "Login OTP", procs[p].otp, FALSE, mailOk)
  /\ UNCHANGED <<users, clock, otpUses, prevOtp>>

(* -------------------------- POST /verify-login ------------------------- *)
\* update({ last_login_at: new Date(), login_records: [...user.login_records, entry] })
\* computed from the row the handler read, not from the stored row
LoginUpdate(row, user, time) ==
  [row EXCEPT !.last_login_at = time,
              !.login_records = Append(user.login_records, [action |-> "login", time |-> time])]

\* the token is signed as soon as the read has returned a row
VerifyLogin(p, e, code, dbOk) ==
  /\ Free(p)
  /\ clock' = clock + 1
  /\ LET user == SelectByEmailOtp(users, e, code, dbOk)
         st == [Idle EXCEPT !.op = "verify-login", !.email = e, !.code = code]
     IN IF user = NoRow
          THEN /\ Reply(p, [Response(st, 400, "Invalid OTP")
                              EXCEPT !.stale = Stale(e, code, dbOk)])
               /\ UNCHANGED otpUses
          ELSE /\ Continue(p, [st EXCEPT !.pc = "vl_update", !.user = user, !.time = clock'])
               /\ otpUses' = [otpUses EXCEPT ![e] = @ + 1]
  /\ sent' = NoMail
  /\ UNCHANGED <<users, prevOtp>>

VerifyLoginWrite(p, dbOk) ==
  /\ procs[p].pc = "vl_update"
  /\ LET e == procs[p].email
     IN users' = IF dbOk /\ users[e] # NoRow
                   THEN [users EXCEPT ![e] = LoginUpdate(@, procs[p].user, procs[p].time)]
                   ELSE users
  /\ Continue(p, [procs[p] EXCEPT !.pc = "vl_send", !.written = dbOk])
  /\ sent' = NoMail
  /\ UNCHANGED <<clock, otpUses, prevOtp>>

VerifyLoginSend(p, mailOk) ==
  /\ procs[p].pc = "vl_send"
  /\ SendThenRespond(p, "Login Successful", NoOtp, TRUE, mailOk)
  /\ UNCHANGED <<users, clock, otpUses, prevOtp>>

(* ----------------------------- POST /logout ---------------------------- *)
\* update({ login_records: [...user.login_records, entry] })
LogoutUpdate(row, user, time) ==
  [row EXCEPT !.login_records = Append(user.login_records, [action |-> "logout", time |-> time])]

Logout(p, e, dbOk) ==
  /\ Free(p)
  /\ clock' = clock + 1
  /\ LET user == SelectByEmail(users, e, dbOk)
         st == [Idle EXCEPT !.op = "logout", !.email = e, !.user = user]
     IN IF user = NoRow
          THEN Reply(p, Response(st, 400, "User not found"))
          ELSE Continue(p, [st EXCEPT !.pc = "lo_update", !.time = clock'])
  /\ sent' = NoMail
  /\ UNCHANGED <<users, otpUses, prevOtp>>

LogoutWrite(p, dbOk) ==
  /\ procs[p].pc = "lo_update"
  /\ LET e == procs[p].email
     IN users' = IF dbOk /\ users[e] # NoRow
                   THEN [users EXCEPT ![e] = LogoutUpdate(@, procs[p].user, procs[p].time)]
                   ELSE users
  /\ Continue(p, [procs[p] EXCEPT !.pc = "lo_send", !.written = dbOk])
  /\ sent' = NoMail
  /\ UNCHANGED <<clock, otpUses, prevOtp>>

LogoutSend(p, mailOk) ==
  /\ procs[p].pc = "lo_send"
  /\ SendThenRespond(p, "Logout Notification", NoOtp, FALSE, mailOk)
  /\ UNCHANGED <<users, clock, otpUses, prevOtp>>

(* --------------------------- POST /resend-otp -------------------------- *)
\* the resend handler without its otp_verified check
ResendGateNoVerifiedCheck(e, user) ==
  IF e = NoEmail THEN [status |-> 400, error |-> "Email is required"]
  ELSE IF user = NoRow THEN [status |-> 404, error |-> "User with this email not found"]
  ELSE [status |-> 200, error |-> "none"]

\* select("name, otp_verified"): the early returns of the resend handler
ResendGate(e, user) ==
  IF e = NoEmail THEN [status |-> 400, error |-> "Email is required"]
  ELSE IF user = NoRow THEN [status |-> 404, error |-> "User with this email not found"]
  ELSE IF user.otp_verified THEN [status |-> 400, error |-> "Email already verified"]
  ELSE [status |-> 200, error |-> "none"]

ResendOtp(p, e, k, dbOk) ==
  /\ Free(p)
  /\ clock' = clock + 1
  /\ LET user == SelectByEmail(users, e, dbOk)
         gate == ResendGate(e, user)
         st == [Idle EXCEPT !.op = "resend-otp", !.email = e, !.user = user]
     IN IF gate.status # 200
          THEN Reply(p, Response(st, gate.status, gate.error))
          ELSE Continue(p, [st EXCEPT !.pc = "rs_update", !.otp = GenerateOtp(k)])
  /\ sent' = NoMail
  /\ UNCHANGED <<users, otpUses, prevOtp>>

\* update({ otp }): here the error of the update is checked
ResendWrite(p, dbOk) ==
  /\ procs[p].pc = "rs_update"
  /\ IF dbOk
       THEN /\ IF users[procs[p].email] # NoRow
                 THEN StoreOtp(procs[p].email, procs[p].otp)
                 ELSE UNCHANGED <<users, otpUses, prevOtp>>
            /\ Continue(p, [procs[p] EXCEPT !.pc = "rs_send", !.written = TRUE])
       ELSE /\ UNCHANGED <<users, otpUses, prevOtp>>
            /\ Reply(p, Response(procs[p], 500, "Failed to update OTP"))
  /\ sent' = NoMail
  /\ UNCHANGED clock

\* sendEmail inside try/catch
ResendSend(p, mailOk) ==
  /\ procs[p].pc = "rs_send"
  /\ IF mailOk
       THEN /\ sent' = Mail(procs[p].email, "Resend OTP - Email Verification", procs[p].otp)
            /\ Reply(p, Response(procs[p], 200, "none"))
       ELSE /\ sent' = NoMail
            /\ Reply(p, Response(procs[p], 500, "Failed to send OTP email"))
  /\ UNCHANGED <<users, clock, otpUses, prevOtp>>

(* ------------------- out-of-band administrative action ----------------- *)
\* an administrator sets approved_by_admin on a row, outside this service
AdminApprove(e) ==
  /\ users[e] # NoRow
  /\ ~users[e].approved_by_admin
  /\ users' = [users EXCEPT ![e].approved_by_admin = TRUE]
  /\ resp' = NoResp
  /\ sent' = NoMail
  /\ UNCHANGED <<procs, clock, otpUses, prevOtp>>

Next ==
  \/ \E p \in Procs, body \in RegisterBodies, k \in Samples, dbOk \in BOOLEAN :
       Register(p, body, k, dbOk)
  \/ \E p \in Procs, mailOk \in BOOLEAN : RegisterSend(p, mailOk)
  \/ \E p \in Procs, e \in Emails, code \in OtpCandidates, dbOk \in BOOLEAN :
       VerifyOtp(p, e, code, dbOk)
  \/ \E p \in Procs, dbOk \in BOOLEAN : VerifyOtpWrite(p, dbOk)
  \/ \E p \in Procs, e \in Emails, k \in Samples, dbOk \in BOOLEAN : Login(p, e, k, dbOk)
  \/ \E p \in Procs, dbOk \in BOOLEAN : LoginWrite(p, dbOk)
  \/ \E p \in Procs, mailOk \in BOOLEAN : LoginSend(p, mailOk)
  \/ \E p \in Procs, e \in Emails, code \in OtpCandidates, dbOk \in BOOLEAN :
       VerifyLogin(p, e, code, dbOk)
  \/ \E p \in Procs, dbOk \in BOOLEAN : VerifyLoginWrite(p, dbOk)
  \/ \E p \in Procs, mailOk \in BOOLEAN : VerifyLoginSend(p, mailOk)
  \/ \E p \in Procs, e \in Emails, dbOk \in BOOLEAN : Logout(p, e, dbOk)
  \/ \E p \in Procs, dbOk \in BOOLEAN : LogoutWrite(p, dbOk)
  \/ \E p \in Procs, mailOk \in BOOLEAN : LogoutSend(p, mailOk)
  \/ \E p \in Procs, e \in Emails \cup {NoEmail}, k \in Samples, dbOk \in BOOLEAN :
       ResendOtp(p, e, k, dbOk)
  \/ \E p \in Procs, dbOk \in BOOLEAN : ResendWrite(p, dbOk)
  \/ \E p \in Procs, mailOk \in BOOLEAN : ResendSend(p, mailOk)
  \/ \E e \in Emails : AdminApprove(e)

Spec == Init /\ [][Next]_vars

TypeOK ==
  /\ \A e \in Emails : users[e] = NoRow \/ DOMAIN users[e] = DOMAIN SchemaDefaults
  /\ clock \in 0..MaxRequests

(* ------------------------- vocabulary of the claims -------------------- *)
\* a step that accepts a request, and the request it accepts: the response
\* when the handler returns in that step, else the task it leaves in flight
Accepts == clock' = clock + 1
Started == IF resp'.op # "none" THEN resp' ELSE procs'[CHOOSE p \in Procs : Free(p)]
Returned == resp'.op # "none"

Gated(row) == row # NoRow /\ row.email_verified /\ row.approved_by_admin
HasLogin(row) == \E i \in 1..Len(row.login_records) : row.login_records[i].action = "login"
IsPrefix(s, t) == Len(s) <= Len(t) /\ SubSeq(t, 1, Len(s)) = s

\* parseInt of a digit string
RECURSIVE ParseInt(_)
ParseInt(s) == IF s = <<>> THEN 0 ELSE 10 * ParseInt(SubSeq(s, 1, Len(s) - 1)) + s[Len(s)]
IsSixDigitCode(s) ==
  /\ Len(s) = 6
  /\ \A i \in 1..Len(s) : s[i] \in 0..9
  /\ ParseInt(s) \in 100000..999999

(* C1: a session token is issued, and a login record appended, only for an *)
(* account whose email_verified and approved_by_admin are both true; an    *)
(* account that was only registered cannot obtain a token.                 *)
C1_LoginGated ==
  /\ resp.token => Gated(users[resp.email])
  /\ \A e \in Emails : users[e] # NoRow /\ HasLogin(users[e]) => Gated(users[e])

(* C2: POST /login stores a fresh OTP and dispatches the login-OTP mail    *)
(* only if the row read for that request has email_verified and            *)
(* approved_by_admin; for a row failing either, the handler returns with   *)
(* the stored OTP unchanged and no mail dispatched.                        *)
C2_PastGate ==
  \A p \in Procs : procs[p].pc \in {"login_update", "login_send"} => Gated(procs[p].user)
C2_Step ==
  /\ Accepts /\ Started.op = "login" /\ ~Gated(users[Started.email])
       => Returned /\ users' = users /\ sent' = NoMail /\ procs' = procs
  /\ \A e \in Emails :
       users[e] # NoRow /\ users'[e].otp # users[e].otp
         /\ (\E p \in Procs : procs[p].op = "login" /\ procs'[p] # procs[p])
       => \E p \in Procs : procs[p].pc = "login_update" /\ procs[p].email = e
                             /\ Gated(procs[p].user) /\ users'[e].otp = procs[p].otp
  /\ sent'.subject = "Login OTP"
       => \E p \in Procs : procs[p].pc = "login_send" /\ Gated(procs[p].user)
                             /\ sent'.otp = procs[p].otp /\ sent'.to = procs[p].email
C2_LoginOtpGated == [](C2_PastGate) /\ [][C2_Step]_vars
C2_Witness ==
  /\ sent.subject = "Login OTP"
  /\ resp.op = "login" /\ resp.status = 200
  /\ users[sent.to].otp = sent.otp

(* C3: an OTP is single-use: once a code was accepted by verify-login, no  *)
(* later verify-login for that account is accepted with it unless a new    *)
(* OTP was stored in between.                                              *)
C3_OtpSingleUse == \A e \in Emails : otpUses[e] <= 1

(* C4: in every state email_verified equals otp_verified for every row,    *)
(* and once they are true no step makes either of them false again.        *)
C4_FlagsTogether ==
  \A e \in Emails : users[e] # NoRow => users[e].email_verified = users[e].otp_verified
C4_FlagsStay ==
  \A e \in Emails :
    users[e] # NoRow /\ users[e].email_verified
      => users'[e] # NoRow /\ users'[e].email_verified /\ users'[e].otp_verified
C4_VerifiedFlags == [](C4_FlagsTogether) /\ [][C4_FlagsStay]_vars
C4_Witness ==
  /\ resp.op = "verify-otp" /\ resp.status = 200
  /\ users[resp.email].email_verified /\ users[resp.email].otp_verified

(* C5: every verify-login that gets past its read appends exactly one      *)
(* login entry to the stored login_records and sets last_login_at, and     *)
(* every logout that gets past its read appends exactly one logout entry:  *)
(* after the write the stored sequence is the previously stored one with   *)
(* one new entry at the end.                                               *)
C5_WriteAppends(p, pcBefore, pcAfter, action) ==
  procs[p].pc = pcBefore /\ procs'[p].pc = pcAfter
    => LET e == procs[p].email
       IN users'[e].login_records =
            Append(users[e].login_records, [action |-> action, time |-> procs[p].time])
C5_Step ==
  \A p \in Procs :
    /\ C5_WriteAppends(p, "vl_update", "vl_send", "login")
    /\ procs[p].pc = "vl_update" /\ procs'[p].pc = "vl_send"
         => users'[procs[p].email].last_login_at = procs[p].time
    /\ C5_WriteAppends(p, "lo_update", "lo_send", "logout")
C5_ExactlyOneAppend == [][C5_Step]_vars

(* C6: login_records is append-only under concurrent requests: in every    *)
(* step the stored login_records before the step is a prefix of the        *)
(* stored login_records after it.                                          *)
C6_Step ==
  \A e \in Emails :
    users[e] # NoRow
      => users'[e] # NoRow /\ IsPrefix(users[e].login_records, users'[e].login_records)
C6_AppendOnly == [][C6_Step]_vars

(* C7: issuing a new OTP invalidates the previous one: a successful write  *)
(* of POST /login or POST /resend-otp leaves its new code as the stored    *)
(* one, and verify-otp and verify-login accept a request only if its code  *)
(* equals the code stored at that moment, answering 400 Invalid OTP and    *)
(* changing nothing otherwise.                                             *)
C7_Step ==
  /\ \A p \in Procs :
       LoginWrite(p, TRUE) \/ ResendWrite(p, TRUE)
         => users'[procs[p].email].otp = procs[p].otp
  /\ Accepts /\ Started.op \in {"verify-otp", "verify-login"}
       => IF users[Started.email] # NoRow /\ Started.code = users[Started.email].otp
            THEN Returned => resp'.status = 400 /\ users' = users
            ELSE /\ Returned /\ resp'.status = 400 /\ resp'.error = "Invalid OTP"
                 /\ users' = users /\ procs' = procs /\ ~resp'.token
C7_NewOtpInvalidatesOld == [][C7_Step]_vars
C7_Witness ==
  /\ resp.op \in {"verify-otp", "verify-login"}
  /\ resp.stale /\ resp.status = 400 /\ resp.error = "Invalid OTP"
  /\ resp.code = prevOtp[resp.email] /\ resp.code # users[resp.email].otp

(* C8: every successful registration creates a row with email_verified,    *)
(* otp_verified and approved_by_admin false, empty login_records and a     *)
(* 6-digit numeric OTP in 100000..999999, whatever the body carries.       *)
C8_Step ==
  Accepts /\ Started.op = "register" /\ ~Returned
    => LET row == users'[Started.email]
       IN /\ row # NoRow
          /\ ~row.email_verified /\ ~row.otp_verified /\ ~row.approved_by_admin
          /\ row.login_records = <<>> /\ row.last_login_at = NullTime
          /\ IsSixDigitCode(row.otp)
C8_RegisteredRow == [][C8_Step]_vars
C8_Witness ==
  \E p \in Procs :
    /\ procs[p].pc = "reg_send"
    /\ users[procs[p].email] # NoRow
    /\ users[procs[p].email].otp = procs[p].otp
    /\ ~users[procs[p].email].approved_by_admin

(* C9: registering an e-mail that already has a row fails with status 400  *)
(* (DuplicateEmail, or the repository's own failure), leaves the table     *)
(* unchanged, and the handler returns without dispatching a mail.          *)
C9_Step ==
  Accepts /\ Started.op = "register" /\ Started.email \in Emails
          /\ users[Started.email] # NoRow
    => /\ Returned /\ resp'.status = 400
       /\ resp'.error \in {"DuplicateEmail", "RepositoryFailure"}
       /\ users' = users /\ sent' = NoMail /\ procs' = procs
C9_DuplicateEmail == [][C9_Step]_vars
C9_Witness ==
  /\ resp.op = "register" /\ resp.status = 400 /\ resp.error = "DuplicateEmail"
  /\ users[resp.email] # NoRow

(* C10: verify-otp with a code that differs from the stored OTP fails with *)
(* 400 Invalid OTP and leaves the table unchanged; the flags of a row not  *)
(* yet verified stay false.                                                *)
C10_Step ==
  Accepts /\ Started.op = "verify-otp" /\ users[Started.email] # NoRow
          /\ Started.code # users[Started.email].otp
    => /\ Returned /\ resp'.status = 400 /\ resp'.error = "Invalid OTP"
       /\ users' = users /\ procs' = procs /\ sent' = NoMail
       /\ ~users[Started.email].email_verified
            => ~users'[Started.email].email_verified /\ ~users'[Started.email].otp_verified
C10_WrongCodeRejected == [][C10_Step]_vars
C10_Witness ==
  /\ resp.op = "verify-otp" /\ resp.status = 400 /\ resp.error = "Invalid OTP"
  /\ users[resp.email] # NoRow /\ resp.code # users[resp.email].otp
  /\ ~users[resp.email].email_verified /\ ~users[resp.email].otp_verified

(* C11: POST /login whose read returns the row answers 403 Email not       *)
(* verified for every row with email_verified false, also when             *)
(* approved_by_admin is false too, and 403 Not approved by admin for every *)
(* row with email_verified true and approved_by_admin false.               *)
C11_Step ==
  Accepts /\ Started.op = "login" /\ users[Started.email] # NoRow
          /\ (\E p \in Procs, k \in Samples : Login(p, Started.email, k, TRUE))
    => LET row == users[Started.email]
       IN /\ ~row.email_verified
               => Returned /\ resp'.status = 403 /\ resp'.error = "Email not verified"
          /\ row.email_verified /\ ~row.approved_by_admin
               => Returned /\ resp'.status = 403 /\ resp'.error = "Not approved by admin"
C11_LoginErrors == [][C11_Step]_vars
C11_Witness ==
  /\ resp.op = "login" /\ resp.status = 403 /\ resp.error = "Email not verified"
  /\ users[resp.email] # NoRow
  /\ ~users[resp.email].email_verified /\ ~users[resp.email].approved_by_admin

(* C12: POST /resend-otp for a row whose otp_verified is true returns      *)
(* without changing the stored OTP and without a mail, and answers 400     *)
(* Email already verified when its read returns the row.                   *)
C12_Step ==
  Accepts /\ Started.op = "resend-otp" /\ Started.email \in Emails
          /\ users[Started.email] # NoRow /\ users[Started.email].otp_verified
    => /\ Returned /\ users' = users /\ sent' = NoMail /\ procs' = procs
       /\ (\E p \in Procs, k \in Samples : ResendOtp(p, Started.email, k, TRUE))
            => resp'.status = 400 /\ resp'.error = "Email already verified"
C12_AlreadyVerified == [][C12_Step]_vars
C12_Witness ==
  /\ resp.op = "resend-otp" /\ resp.status = 400 /\ resp.error = "Email already verified"
  /\ users[resp.email].otp_verified

(* C13: when sendEmail fails after the operation's write was applied       *)
(* (register, login, verify-login, logout, resend-otp), the request is     *)
(* answered with an error response and the write stays in place.           *)
SendPcs == {"reg_send", "login_send", "vl_send", "lo_send", "rs_send"}
C13_Step ==
  \A p \in Procs :
    procs[p].pc \in SendPcs /\ procs[p].written /\ procs'[p].pc = "idle" /\ sent' = NoMail
      => /\ resp'.op = procs[p].op /\ resp'.status >= 400
         /\ users' = users
C13_DeliveryFailureSurfaced == [][C13_Step]_vars

(* C14: no step of the service changes approved_by_admin of a row, and a   *)
(* row created by a registration has it false whatever the body carries.   *)
ServiceStep == clock' # clock \/ procs' # procs
C14_Step ==
  ServiceStep
    => \A e \in Emails :
         /\ users[e] # NoRow
              => users'[e] # NoRow /\ users'[e].approved_by_admin = users[e].approved_by_admin
         /\ users[e] = NoRow /\ users'[e] # NoRow => ~users'[e].approved_by_admin
C14_ApprovalUntouched == [][C14_Step]_vars
C14_Witness ==
  \E p \in Procs :
    /\ procs[p].pc = "reg_send" /\ procs[p].bodyApproved
    /\ users[procs[p].email] # NoRow
    /\ ~users[procs[p].email].approved_by_admin

(* C15: verify-otp is idempotent and silent: its update leaves the stored  *)
(* OTP unchanged, a verify-otp with the same code on the row it has        *)
(* verified is accepted again and its update leaves the table as it was,   *)
(* and no step of verify-otp dispatches a mail.                            *)
C15_Step ==
  /\ Accepts /\ Started.op = "verify-otp" => sent' = NoMail
  /\ Accepts /\ Started.op = "verify-otp" /\ users[Started.email] # NoRow
       /\ users[Started.email].otp_verified /\ Started.code = users[Started.email].otp
       /\ (\E p \in Procs : VerifyOtp(p, Started.email, Started.code, TRUE))
       => ~Returned /\ users' = users
  /\ \A p \in Procs :
       procs[p].pc = "vo_update" /\ procs'[p].pc = "idle" /\ resp'.op = "verify-otp"
         => LET e == procs[p].email
            IN /\ sent' = NoMail
               /\ resp'.status = 200
               /\ users'[e].otp = users[e].otp
               /\ users[e].otp_verified /\ users[e].email_verified => users' = users
C15_VerifyOtpIdempotent == [][C15_Step]_vars
C15_Witness ==
  \E p \in Procs :
    /\ procs[p].pc = "vo_update"
    /\ procs[p].user.otp_verified /\ procs[p].user.email_verified
    /\ users[procs[p].email].otp = procs[p].code
    /\ clock = 2

(* C16: when the first read of verify-otp, login, verify-login, logout or  *)
(* resend-otp fails or finds no row, the handler returns an error response *)
(* in that step: no write, no token, no mail.                              *)
ReadFails ==
  LET e == Started.email
  IN \/ e \notin Emails
     \/ users[e] = NoRow
     \/ Started.op \in {"verify-otp", "verify-login"} /\ Started.code # users[e].otp
     \/ \E p \in Procs :
          \/ VerifyOtp(p, e, Started.code, FALSE)
          \/ VerifyLogin(p, e, Started.code, FALSE)
          \/ Logout(p, e, FALSE)
          \/ \E k \in Samples : Login(p, e, k, FALSE) \/ ResendOtp(p, e, k, FALSE)
C16_Step ==
  Accepts /\ Started.op \in {"verify-otp", "login", "verify-login", "logout", "resend-otp"}
          /\ ReadFails
    => /\ Returned /\ resp'.status >= 400 /\ ~resp'.token
       /\ users' = users /\ sent' = NoMail /\ procs' = procs
C16_ReadFailureFirst == [][C16_Step]_vars
C16_Witness ==
  /\ resp.op = "login" /\ resp.status = 400 /\ resp.error = "User not found"
  /\ Gated(users[resp.email])

(* C17: two POST /login for one account are serializable: when the second  *)
(* of their updates is applied, the stored OTP is the code of that update, *)
(* verify-login accepts it, and rejects the code of the other request.     *)
C17_SecondWrite(p, q) ==
  /\ p # q
  /\ procs[p].pc = "login_update"
  /\ procs[q].pc = "login_send" /\ procs[q].written
  /\ procs[q].email = procs[p].email
C17_Accepted(tbl, e, code) == SelectByEmailOtp(tbl, e, code, TRUE) # NoRow
C17_StepAsClaimed ==
  \A p \in Procs, q \in Procs :
    C17_SecondWrite(p, q) /\ LoginWrite(p, TRUE)
      => LET e == procs[p].email
         IN /\ users'[e].otp = procs[p].otp
            /\ C17_Accepted(users', e, procs[p].otp)
            /\ ~C17_Accepted(users', e, procs[q].otp)
C17_ExactlyOneWinner == [][C17_StepAsClaimed]_vars

(* C17 as amended: the stored OTP is the code of the last update that was  *)
(* applied (an update that fails leaves it as it was); verify-login        *)
(* accepts that code and rejects the other request's code when it differs. *)
C17_Step ==
  \A p \in Procs, q \in Procs :
    C17_SecondWrite(p, q)
      => LET e == procs[p].email
         IN /\ LoginWrite(p, TRUE)
                 => /\ users'[e].otp = procs[p].otp
                    /\ C17_Accepted(users', e, procs[p].otp)
                    /\ procs[q].otp # procs[p].otp
                         => ~C17_Accepted(users', e, procs[q].otp)
            /\ LoginWrite(p, FALSE)
                 => /\ users' = users
                    /\ procs[p].otp # users[e].otp
                         => ~C17_Accepted(users', e, procs[p].otp)
C17_LastWriteWins == [][C17_Step]_vars
C17_Witness ==
  \E p \in Procs, q \in Procs :
    /\ procs[p].pc = "login_send" /\ procs[q].pc = "login_send"
    /\ procs[p].written /\ procs[q].written
    /\ procs[p].otp # procs[q].otp
    /\ users[procs[p].email].otp = procs[p].otp
    /\ prevOtp[procs[p].email] = procs[q].otp

(* C18: side effects follow the accepted write: a handler dispatches its   *)
(* mail and returns its token only after its own write was applied; a      *)
(* login-OTP mail carries a code that update stored, and a token follows   *)
(* the write of the login record and last_login_at.                        *)
C18_Step ==
  \A p \in Procs :
    procs[p].pc \in SendPcs /\ procs'[p].pc = "idle" /\ resp'.op = procs[p].op
      /\ (sent' # NoMail \/ resp'.token)
      => procs[p].written
C18_EffectsAfterWrite == [][C18_Step]_vars

(* C19: in every state last_login_at is set if and only if login_records   *)
(* holds at least one login entry.                                         *)
C19_LoginStampMatchesRecords ==
  \A e \in Emails :
    users[e] # NoRow => (users[e].last_login_at # NullTime <=> HasLogin(users[e]))

(* C20: resend-otp never overwrites the stored OTP of a row whose          *)
(* otp_verified is true at the moment of the write.                        *)
C20_Step ==
  \A p \in Procs :
    procs[p].pc = "rs_update" /\ ResendWrite(p, TRUE)
      => ~users[procs[p].email].otp_verified
C20_ResendOnlyUnverified == [][C20_Step]_vars
====
